---- MODULE Spec2Model ----
(***************************************************************************)
(* Notification dispatch pipeline of tobey0x/notification-system:          *)
(*   - the API gateway's POST /notifications handler (Go), its Redis       *)
(*     idempotency/status store and its RabbitMQ publisher;                *)
(*   - the push service's queue consumer (TypeScript), PushService with    *)
(*     its retry timers and circuit breaker, and the status updates it     *)
(*     posts back to the gateway.                                          *)
(* SpecIngress runs the gateway side, SpecPush the push-service side.      *)
(***************************************************************************)
EXTENDS Integers, Sequences, FiniteSets, TLC

VARIABLES
    \* ---- gateway (api-gateway) ----
    req,            \* per HTTP request: position in CreateNotifiation, inputs, response
    idempotency,    \* Redis "idempotency:<key>" -> notification id (0 = no record)
    statusStore,    \* Redis "notification:<id>" -> status ("none" = no record)
    exchangeQueues, \* broker queues fed through the exchange, as sequences of bodies
    publishCalls,   \* number of RabbitMQClient.Publish calls made for each request
    storeFault,     \* history: some Redis call of the gateway returned an error
    overlap,        \* history: a request was submitted while another was in flight
    \* ---- broker, as the push service sees it ----
    body,           \* per message: the shape of its content ("none" = not produced yet)
    loc,            \* per message: "none", "ready" (in push.queue), "unacked", "gone"
    failedQueue,    \* content of failed.queue
    \* ---- push service: config/rabbitmq.ts and services/queue.service ----
    channel,        \* module variable channel: "open" or "null"
    hpc,            \* per message: where its consumer callback is suspended
    deliveries,     \* history: times the consumer callback was invoked for the message
    settled,        \* history: "none", "ack" or "nack", as the broker received it
    processed,      \* history: processPushNotification was invoked for the message
    threw,          \* history: the callback's try block ended in its catch block
    \* ---- push service: PushService (services/push.service) ----
    isCircuitOpen,
    failureCount,
    call,           \* per notification and retryCount: where that sendToUser call is
    timerDue,       \* per notification and retryCount: ms until its retry timer fires (-1 = none)
    resetTimers,    \* pending circuit-reset timers, oldest first: ms until each fires
    \* ---- history of PushService ----
    outcomes,       \* per notification: how many sendToUser calls ended in each outcome
    lookups,        \* per notification: getUserData calls made
    sends,          \* per notification: sendToDevice calls made by sendToUser
    delays,         \* per notification: the delays given to setTimeout, in order
    reports,        \* per notification: the updateNotificationStatus calls, in order
    trips,          \* tripCircuitBreaker calls made
    \* ---- Redis key expiry ----
    day,            \* clock, days
    statusExpiry,   \* per notification id: day its status key expires (-1 = no key)
    createdAt,      \* history: day the handler made the status write for the id (-1 = never)
    \* ---- broker topology ----
    brokerQueues,   \* per queue name: whether it exists and the arguments it has
    setupPc,        \* per service: the declaration its running startup makes next (0 = none)
    brokerBindings, \* bindings of the notifications exchange: <<routing key, queue>>
    startLog,       \* history: the startups so far, [service, ok], in order
    \* ---- push service: connectToRabbitMQ ----
    brokerUp,       \* the broker accepts connections
    isConnecting,
    reconnectAttempts,
    connectPc,      \* where the running connectToRabbitMQ call is
    reconnectTimer, \* the 'close' handler's setTimeout is pending
    connectAttempts,\* history: calls of amqplib connect()
    connectResult,  \* history: how the last connectToRabbitMQ promise settled
    \* ---- gateway: rate limiter (one identifier) ----
    rlCount,        \* Redis "ratelimt:<identifier>": the counter (0 = no key)
    rlTtl,          \* seconds until the key expires (-1 = no key, or a key without TTL)
    rlLast,         \* history: the last request: Redis result, count returned, answer
    rlPassed,       \* history: requests handed to the handler in the key's lifetime
    rlUncounted,    \* history: those of them whose IncrementRateLimit returned an error
    rlSentNow,      \* history: a request was made since the clock last advanced
    rlPaced,        \* history: no two requests were made without the clock advancing
    \* ---- user service: auth-controller ----
    authClock,      \* clock, seconds
    storedToken,    \* per user: User.refreshToken in the database (NoToken = null)
    retiredTokens,  \* history, per user: the stored tokens that were replaced or cleared
    refreshReq,     \* per request slot: the POST /auth/refresh being handled, its answer
    authLast,       \* history: the last login or logout and its answer
    \* ---- user service: push tokens ----
    pushTokens,     \* table PushToken: per id the owner (0 = no such row) and a field
    nextTokenId,    \* the id the next created token gets
    tokenReq,       \* per request: the PATCH or DELETE, where its handler is, its answer
    \* ---- push service: template substitution ----
    template,       \* a template string of the Template Service, as a token sequence
    variables,      \* the variables object of the queue message
    rendered,       \* what replaceVariables returned
    renderPc,       \* "idle", "start" (inputs given), "done" (replaceVariables returned)
    \* ---- push service: acknowledgements and channel generations ----
    channelsCreated,\* how many channels connectToRabbitMQ has created
    channelId,      \* rabbitmq.ts's channel: 0 = null, k = the k-th channel created
    ackLoc,         \* per message: "ready" or "unacked" at the broker, or "settled"
    deliveredOn,    \* per message: the channel of its last delivery (0 = none)
    handling,       \* per message: channel of the delivery its running callback got, or 0
    ackLog          \* history: the ack/nack frames the consumer wrote

varsIngress == <<req, idempotency, exchangeQueues, publishCalls, storeFault, overlap>>

varsBroker == <<body, loc, failedQueue>>

varsConsumer == <<channel, hpc, deliveries, settled, processed, threw>>

varsService == <<isCircuitOpen, failureCount, call, timerDue, resetTimers,
                 outcomes, lookups, sends, delays, reports, trips>>

varsPushSide == <<varsBroker, varsConsumer, varsService>>

varsExpiry == <<day, statusExpiry, createdAt>>

varsTopology == <<brokerQueues, setupPc, brokerBindings, startLog>>

varsConnect == <<brokerUp, isConnecting, reconnectAttempts, connectPc, reconnectTimer,
                 connectAttempts, connectResult>>

varsRate == <<rlCount, rlTtl, rlLast, rlPassed, rlUncounted, rlSentNow, rlPaced>>

\* the variables of the parts that run beside the notification pipeline
varsAuth == <<authClock, storedToken, retiredTokens, refreshReq, authLast>>

varsTokens == <<pushTokens, nextTokenId, tokenReq>>

varsRender == <<template, variables, rendered, renderPc>>

varsAck == <<channelsCreated, channelId, ackLoc, deliveredOn, handling, ackLog>>

varsAux == <<varsRate, varsAuth, varsTokens, varsRender, varsAck>>

varsOther == <<varsExpiry, varsTopology, varsConnect, varsAux>>

vars == <<req, idempotency, statusStore, exchangeQueues, publishCalls, storeFault,
          overlap, body, loc, failedQueue, channel, hpc, deliveries, settled,
          processed, threw, isCircuitOpen, failureCount, call, timerDue, resetTimers,
          outcomes, lookups, sends, delays, reports, trips,
          day, statusExpiry, createdAt, brokerQueues, setupPc, brokerBindings, startLog,
          brokerUp, isConnecting, reconnectAttempts, connectPc, reconnectTimer,
          connectAttempts, connectResult,
          rlCount, rlTtl, rlLast, rlPassed, rlUncounted, rlSentNow, rlPaced,
          authClock, storedToken, retiredTokens, refreshReq, authLast,
          pushTokens, nextTokenId, tokenReq,
          template, variables, rendered, renderPc,
          channelsCreated, channelId, ackLoc, deliveredOn, handling, ackLog>>

----------------------------------------------------------------------------
(* Bounds of the model *)

MaxReq == 2         \* HTTP submissions handled by the gateway
MaxMsgs == 2        \* messages that reach push.queue
MaxDay == 9         \* days the expiry clock runs
MaxStartups == 4    \* service startups against one broker
MaxConnects == 12   \* calls of amqplib connect() by the push service
MaxCounter == 102   \* value the rate-limit counter is followed up to
MaxFaults == 2      \* failed IncrementRateLimit calls within one lifetime of the key
TickSeconds == 30   \* step of the rate limiter's clock, seconds
MaxAuthSeconds == 1 \* seconds the user service's clock runs
MaxUsers == 2       \* users of the user service
MaxRefresh == 2     \* POST /auth/refresh requests handled at a time
MaxTokens == 2      \* push tokens ever created
MaxTokenReqs == 2   \* PATCH / DELETE push-token requests handled
MaxTemplateLen == 2  \* tokens of a template string
MaxAckMsgs == 2      \* messages of the acknowledgement model
MaxChannels == 3     \* channels created by connects and reconnects

----------------------------------------------------------------------------
(* Gateway: request model, validation, topology *)

Requests == 1..MaxReq

\* models.NotificationType / models.Priority constants
NotificationTypes == {"email", "push"}
PriorityValues == {"high", "normal", "low"}

\* inputs a caller may send (one value outside each enumeration)
InputTypes == NotificationTypes \cup {"sms"}
InputPriorities == {"high", "low", "urgent"}
IdempotencyKeys == {"k1", "k2"}
InputKeys == IdempotencyKeys \cup {""}      \* "" = header X-Idempotency-Key absent

\* cfg.RabbitMQ queue names
EmailQueue == "email.queue"
PushQueue == "push.queue"
FailedQueue == "failed.queue"
QueueNames == {EmailQueue, PushQueue, FailedQueue}

\* RabbitMQClient.setup: the queues bound to the exchange and their routing keys
\* (the failed queue is declared but not bound)
Bindings == {<<"email", EmailQueue>>, <<"push", PushQueue>>}

\* an exchange that copies every message to every queue
Route_Fanout(routingKey) == QueueNames

\* direct exchange: the queues a routing key reaches
Route(routingKey) == {q \in QueueNames : <<routingKey, q>> \in Bindings}

\* a binding that forgets the oneof tag of priority
ShouldBindJSON_NoPriorityCheck(type, priority) ==
    type \in NotificationTypes

\* binding tags of models.NotificationRequest: oneof=email push, oneof=high normal low
ShouldBindJSON(type, priority) ==
    /\ type \in NotificationTypes
    /\ priority \in PriorityValues

NoRequest == [pc |-> "new", type |-> "", priority |-> "", key |-> "",
              code |-> 0, respId |-> 0, respStatus |-> "", statusWrites |-> 0]

\* go-redis (v9) Set: the value kinds its writer can marshal; for any other value,
\* a plain struct included, Set returns "can't marshal" and stores nothing
RedisMarshals(kind) ==
    kind \in {"string", "bytes", "number", "bool", "time", "BinaryMarshaler"}

\* what CreateNotifiation hands to SetIdempotencyKey: the notification id, a string
IdempotencyValue == "string"

\* what CreateNotifiation hands to SetNotificationStatus: a models.NotificationStatus
\* struct, which has no MarshalBinary method
StatusRecordValue == "struct"

\* RedisClient.SetNotificationStatus(id, status, 7 days): the store afterwards
SetNotificationStatus(n, redisOk) ==
    IF redisOk /\ RedisMarshals(StatusRecordValue)
    THEN [statusStore EXCEPT ![n] = "pending"]
    ELSE statusStore

\* uuid.New(): a fresh id per request; the request's index stands for it
NewNotificationID(r) == r

InFlight(r) == req[r].pc \in {"lookup", "store", "publish", "status"}

----------------------------------------------------------------------------
(* Push service: constants, message shapes, initial state *)

Msgs == 1..MaxMsgs

\* services/push.service
MAX_RETRIES == 3
RETRY_DELAY_MS == 1000
CIRCUIT_BREAKER_THRESHOLD == 5
CIRCUIT_RESET_TIMEOUT == 60000
\* config/rabbitmq.ts
PREFETCH == 10
MESSAGE_TTL == 86400000
\* config/rabbitmq.ts: reconnect budget of the 'close' handler, and the default of
\* connectToRabbitMQ's maxRetries parameter
MAX_RECONNECT_ATTEMPTS == 5
DEFAULT_MAX_RETRIES == 5

\* retryCount values a sendToUser call can carry
RetryCounts == 0..(MAX_RETRIES + 1)

\* how a sendToUser call can end: short-circuited by the open breaker, getUserData
\* threw, the user has push disabled or no token, sendToDevice threw, delivered
Outcomes == {"open", "lookupFailed", "disabled", "sendFailed", "delivered"}

\* Contents a message on push.queue can have:
\*   "corrupt"        bytes that are not JSON
\*   "celery"         the body RabbitMQClient.Publish writes (task, id, args, ...)
\*   "queueMsg"       NotificationQueueMessage with all required fields
\*   "queueMsgNoName" NotificationQueueMessage whose variables lack name
\*   "legacy"         PushNotificationMessage (deviceToken, title, body)
Shapes == {"corrupt", "celery", "queueMsg", "queueMsgNoName", "legacy"}

\* top-level keys of the parsed object
Fields(shape) ==
    CASE shape = "celery" -> {"task", "id", "args", "kwargs", "retries", "eta"}
      [] shape \in {"queueMsg", "queueMsgNoName"} ->
            {"notification_type", "user_id", "template_code", "variables",
             "request_id", "priority"}
      [] shape = "legacy" -> {"deviceToken", "title", "body"}
      [] OTHER -> {}

\* a parser that accepts any body
JsonParses_Any(shape) == TRUE

\* JSON.parse(msg.content.toString()) returns instead of throwing
JsonParses(shape) == shape # "corrupt"

\* processPushNotification: the branch taken for a parsed message
Dispatch(shape) ==
    IF "user_id" \in Fields(shape) /\ "template_code" \in Fields(shape) THEN "queue"
    ELSE IF "deviceToken" \in Fields(shape) THEN "legacy"
    ELSE "invalid"

\* processNotificationFromQueue: the required-field checks pass
RequiredFieldsPresent(shape) == shape = "queueMsg"

\* the notification id a queue message carries (request_id); one per message
NotificationOf(m) == m

\* setupQueues: arguments the push service declares push.queue with
PushQueueArguments ==
    [ttl |-> MESSAGE_TTL, deadLetterExchange |-> "", deadLetterRoutingKey |-> FailedQueue]

\* the default exchange "" routes to the queue named by the routing key
DefaultExchangeRoute(routingKey) == {q \in QueueNames : q = routingKey}

\* main.go: the routes the gateway serves
GatewayRoutes == {<<"POST", "/api/v1/notifications">>,
                  <<"GET", "/api/v1/notifications/:id">>,
                  <<"GET", "/api/v1/notifications">>}

\* GetNotificationStatus: the status of the record GET /notifications/:id reads
\* ("none": no record, 404)
GetNotificationStatus(n) == statusStore[n]

\* updateNotificationStatus: the endpoint it posts to
StatusUpdateEndpoint == <<"POST", "/api/v1/notification/status">>

\* queue arguments left out of a declaration (nil table, no arguments option)
NoArguments == [ttl |-> -1, deadLetterExchange |-> "unset", deadLetterRoutingKey |-> "unset"]

\* a queue the broker does not have
Absent == [exists |-> FALSE, arguments |-> NoArguments]

\* the two services that declare queues on the broker
Services == {"gateway", "push"}

\* no day has passed and no status key exists
InitExpiry ==
    /\ day = 0
    /\ statusExpiry = [n \in Requests |-> -1]
    /\ createdAt = [n \in Requests |-> -1]

\* a broker on which nothing has been declared yet
InitTopology ==
    /\ brokerQueues = [q \in QueueNames |-> Absent]
    /\ setupPc = [s \in Services |-> 0]
    /\ brokerBindings = {}
    /\ startLog = <<>>

\* rabbitmq.ts lines 12-15: the module variables before connectToRabbitMQ is called
InitConnect ==
    /\ brokerUp = TRUE
    /\ isConnecting = FALSE
    /\ reconnectAttempts = 0
    /\ connectPc = "idle"
    /\ reconnectTimer = FALSE
    /\ connectAttempts = 0
    /\ connectResult = "none"

\* rate_limit.go: no request was made yet and Redis holds no counter
NoRateRequest == [redis |-> "none", count |-> 0, code |-> "none"]

InitRate ==
    /\ rlCount = 0
    /\ rlTtl = -1
    /\ rlLast = NoRateRequest
    /\ rlPassed = 0
    /\ rlUncounted = 0
    /\ rlSentNow = FALSE
    /\ rlPaced = TRUE

Users == 1..MaxUsers
RefreshSlots == 1..MaxRefresh

\* User.refreshToken is null
NoToken == [user |-> 0, iat |-> -1]

\* a string jwt.verify rejects
GarbageToken == [user |-> 0, iat |-> -2]

NoRefresh == [pc |-> "idle", token |-> NoToken, user |-> 0, newToken |-> NoToken,
              wasRetired |-> FALSE, code |-> 0]

\* the users are registered and logged out, no request was made
InitAuth ==
    /\ authClock = 0
    /\ storedToken = [u \in Users |-> NoToken]
    /\ retiredTokens = [u \in Users |-> {}]
    /\ refreshReq = [s \in RefreshSlots |-> NoRefresh]
    /\ authLast = [op |-> "none", user |-> 0, code |-> 0]

TokenIds == 1..MaxTokens
TokenSlots == 1..MaxTokenReqs

\* no row with the id
NoPushToken == [owner |-> 0, device_name |-> ""]

NoTokenRequest == [pc |-> "idle", kind |-> "", auth |-> 0, id |-> 0, bodyField |-> "",
                   sawOwner |-> -1, code |-> 0]

\* no push token was registered yet
InitTokens ==
    /\ pushTokens = [i \in TokenIds |-> NoPushToken]
    /\ nextTokenId = 1
    /\ tokenReq = [s \in TokenSlots |-> NoTokenRequest]

\* ---- template substitution: JavaScript values ----

\* a string is a sequence of tokens: a run of plain text or a {{key}} placeholder
Text(s) == [kind |-> "text", val |-> s]

Placeholder(key) == [kind |-> "placeholder", val |-> key]

JsString(tokens) == [type |-> "string", str |-> tokens, num |-> 0]

JsNumber(n) == [type |-> "number", str |-> <<>>, num |-> n]

JsUndefined == [type |-> "undefined", str |-> <<>>, num |-> 0]

\* a built-in function, by its name
JsFunction(name) == [type |-> "function", str |-> <<Text(name)>>, num |-> 0]

\* the keys that templates and variables of the model use
RenderKeys == {"name", "link", "code", "missing", "constructor", "first-name"}

\* what an object literal inherits: flattenedVariables is built by { ... }, so its
\* prototype is Object.prototype (constructor, among others)
ObjectPrototype == [k \in {"constructor"} |-> JsFunction("Object")]

\* the property read variables[key]: own properties first, then the prototype's
Get(object, key) ==
    IF key \in DOMAIN object THEN object[key]
    ELSE IF key \in DOMAIN ObjectPrototype THEN ObjectPrototype[key]
    ELSE JsUndefined

\* String(value)
String(value) ==
    CASE value.type = "string" -> value.str
      [] value.type = "number" -> <<Text(ToString(value.num))>>
      [] value.type = "function" ->
            <<Text("function "), value.str[1], Text("() { [native code] }")>>
      [] OTHER -> <<Text("undefined")>>

\* the truth value of value in a condition
Truthy(value) ==
    CASE value.type = "string" -> value.str # <<>>
      [] value.type = "number" -> value.num # 0
      [] value.type = "function" -> TRUE
      [] OTHER -> FALSE

\* the group (\w+) of the pattern /\{\{(\w+)\}\}/g matches the key: of the keys of
\* the model only first-name has a character outside [A-Za-z0-9_]
MatchesWord(key) == key # "first-name"

\* templates: up to MaxTemplateLen tokens, plain text or a placeholder of any key
TemplateTokens == {Text("Hi ")} \cup {Placeholder(k) : k \in RenderKeys}

Templates == UNION {[1..n -> TemplateTokens] : n \in 0..MaxTemplateLen}

\* variables.name is a non-empty string (processNotificationFromQueue line 306
\* rejects the message otherwise); a name can itself look like a placeholder
NameValues == {JsString(<<Text("Ann")>>), JsString(<<Placeholder("link")>>)}

\* variables.link: absent, empty, or a URL
LinkValues == {JsUndefined, JsString(<<>>), JsString(<<Text("https://x")>>)}

\* variables.meta: absent or {} (no entries), or one entry
MetaValues ==
    {[k \in {} |-> JsUndefined]} \cup
    {[k \in {"code"} |-> v] : v \in {JsNumber(42), JsString(<<Placeholder("name")>>)}} \cup
    {[k \in {"name"} |-> JsString(<<Text("Bob")>>)],
     [k \in {"first-name"} |-> JsString(<<Text("Jo")>>)]}

\* nothing is being rendered
InitRender ==
    /\ template = <<>>
    /\ variables = [name |-> JsString(<<Text("Ann")>>), link |-> JsUndefined,
                    meta |-> [k \in {} |-> JsUndefined]]
    /\ rendered = <<>>
    /\ renderPc = "idle"

\* ---- acknowledgements ----
AckMsgs == 1..MaxAckMsgs

\* the service is connected on its first channel, the consumer is registered, and
\* the messages wait in push.queue
InitAck ==
    /\ channelId = 1
    /\ channelsCreated = 1
    /\ ackLoc = [m \in AckMsgs |-> "ready"]
    /\ deliveredOn = [m \in AckMsgs |-> 0]
    /\ handling = [m \in AckMsgs |-> 0]
    /\ ackLog = <<>>

InitAux == InitRate /\ InitAuth /\ InitTokens /\ InitRender /\ InitAck

InitPushSide ==
    /\ body = [m \in Msgs |-> "none"]
    /\ loc = [m \in Msgs |-> "none"]
    /\ failedQueue = <<>>
    /\ channel = "open"
    /\ hpc = [m \in Msgs |-> "idle"]
    /\ deliveries = [m \in Msgs |-> 0]
    /\ settled = [m \in Msgs |-> "none"]
    /\ processed = [m \in Msgs |-> FALSE]
    /\ threw = [m \in Msgs |-> FALSE]
    /\ isCircuitOpen = FALSE
    /\ failureCount = 0
    /\ call = [n \in Msgs |-> [rc \in RetryCounts |-> "none"]]
    /\ timerDue = [n \in Msgs |-> [rc \in RetryCounts |-> -1]]
    /\ resetTimers = <<>>
    /\ outcomes = [n \in Msgs |-> [o \in Outcomes |-> 0]]
    /\ lookups = [n \in Msgs |-> 0]
    /\ sends = [n \in Msgs |-> 0]
    /\ delays = [n \in Msgs |-> <<>>]
    /\ reports = [n \in Msgs |-> <<>>]
    /\ trips = 0

\* the push service is connected, its queues are declared and its consumer runs
InitPush ==
    /\ req = [r \in Requests |-> NoRequest]
    /\ idempotency = [k \in IdempotencyKeys |-> 0]
    /\ statusStore = [n \in Msgs |-> "none"]
    /\ exchangeQueues = [q \in QueueNames |-> <<>>]
    /\ publishCalls = [r \in Requests |-> 0]
    /\ storeFault = FALSE
    /\ overlap = FALSE
    /\ InitPushSide
    /\ InitExpiry
    /\ InitTopology
    /\ InitAux
    /\ InitConnect

----------------------------------------------------------------------------
(* Push service: PushService.sendToUser, handleError, circuit breaker *)

\* a retry delay that grows by RETRY_DELAY_MS per retry
RetryDelay_Linear(rc) == RETRY_DELAY_MS * (rc + 1)

\* a retry delay that does not grow
RetryDelay_Constant(rc) == RETRY_DELAY_MS

\* handleError line 438: RETRY_DELAY_MS * Math.pow(2, retryCount)
RetryDelay(rc) == RETRY_DELAY_MS * (2 ^ rc)

\* one retry more before giving up
MaxRetriesReached_OneMore(rc) == rc > MAX_RETRIES

\* handleError line 422
MaxRetriesReached(rc) == rc >= MAX_RETRIES

\* handleError line 433
ThresholdReached(count) == count >= CIRCUIT_BREAKER_THRESHOLD

\* updateNotificationStatus: the POST reaches a handler of the gateway only if the
\* gateway serves the endpoint; any error of the POST is caught and logged
StoreAfterReport(n, status) ==
    IF StatusUpdateEndpoint \in GatewayRoutes
    THEN [statusStore EXCEPT ![n] = status]
    ELSE statusStore

\* how the axios.post of updateNotificationStatus can end: it resolves (TRUE) only
\* if the gateway serves the endpoint; it can always reject (404, timeout of 3 s)
PostResults ==
    IF StatusUpdateEndpoint \in GatewayRoutes THEN {TRUE, FALSE} ELSE {FALSE}

\* an updateNotificationStatus that throws the error of the POST on
UpdateNotificationStatusThrows_Rethrow(postOk) == ~postOk

\* updateNotificationStatus lines 374-397: the catch block logs the error of the
\* POST and does not throw
UpdateNotificationStatusThrows(postOk) == FALSE

ReportsAfter(n, status, error) ==
    [reports EXCEPT ![n] = Append(@, [status |-> status, error |-> error])]

\* one more sendToUser call of n ended in outcome o
Outcome(n, o) == [outcomes EXCEPT ![n][o] = @ + 1]

\* sendToUser lines 127-136, up to its first await: with the breaker open it
\* reports pending and will return false; otherwise it starts the user lookup
SendToUser(n, rc) ==
    /\ timerDue' = [timerDue EXCEPT ![n][rc] = -1]
    /\ IF isCircuitOpen
       THEN /\ call' = [call EXCEPT ![n][rc] = "postThenFalse"]
            /\ outcomes' = Outcome(n, "open")
            /\ reports' = ReportsAfter(n, "pending", "")
            /\ statusStore' = StoreAfterReport(n, "pending")
            /\ UNCHANGED lookups
       ELSE /\ call' = [call EXCEPT ![n][rc] = "lookup"]
            /\ lookups' = [lookups EXCEPT ![n] = @ + 1]
            /\ UNCHANGED <<outcomes, reports, statusStore>>
    /\ UNCHANGED <<isCircuitOpen, failureCount, resetTimers, sends, delays, trips>>

\* sendToUser's catch (lines 155-158) with handleError (lines 403-444), which runs
\* without an await up to the end of the catch; outcome names what threw
HandleError(n, rc, outcome) ==
    /\ outcomes' = Outcome(n, outcome)
    /\ IF MaxRetriesReached(rc)
       THEN /\ reports' = ReportsAfter(n, "failed", "Max retries reached")
            /\ statusStore' = StoreAfterReport(n, "failed")
            /\ call' = [call EXCEPT ![n][rc] = "end"]
            /\ UNCHANGED <<isCircuitOpen, failureCount, resetTimers, trips,
                           delays, timerDue>>
       ELSE /\ failureCount' = failureCount + 1
            /\ IF ThresholdReached(failureCount + 1)
               THEN /\ isCircuitOpen' = TRUE
                    /\ resetTimers' = Append(resetTimers, CIRCUIT_RESET_TIMEOUT)
                    /\ trips' = trips + 1
               ELSE UNCHANGED <<isCircuitOpen, resetTimers, trips>>
            /\ delays' = [delays EXCEPT ![n] = Append(@, RetryDelay(rc))]
            /\ timerDue' = [timerDue EXCEPT ![n][rc + 1] = RetryDelay(rc)]
            /\ call' = [call EXCEPT ![n][rc] = "end", ![n][rc + 1] = "timer"]
            /\ UNCHANGED <<reports, statusStore>>
    /\ UNCHANGED <<lookups, sends>>

\* a disabled user handled like a thrown error
UserDisabled_AsError(n, rc) == HandleError(n, rc, "disabled")

\* sendToUser lines 139-143: push disabled or no token
UserDisabled(n, rc) ==
    /\ outcomes' = Outcome(n, "disabled")
    /\ reports' = ReportsAfter(n, "failed", "User has push disabled or no token")
    /\ statusStore' = StoreAfterReport(n, "failed")
    /\ call' = [call EXCEPT ![n][rc] = "postThenFalse"]
    /\ UNCHANGED <<isCircuitOpen, failureCount, resetTimers, trips, delays,
                   timerDue, lookups, sends>>

\* sendToUser line 146: the user has a token, sendToDevice is called
StartSend(n, rc) ==
    /\ call' = [call EXCEPT ![n][rc] = "send"]
    /\ sends' = [sends EXCEPT ![n] = @ + 1]
    /\ UNCHANGED <<isCircuitOpen, failureCount, timerDue, resetTimers, outcomes,
                   lookups, delays, reports, trips, statusStore>>

\* sendToUser lines 148-149: the provider accepted the message
Delivered(n, rc) ==
    /\ outcomes' = Outcome(n, "delivered")
    /\ reports' = ReportsAfter(n, "delivered", "")
    /\ statusStore' = StoreAfterReport(n, "delivered")
    /\ call' = [call EXCEPT ![n][rc] = "postThenTrue"]
    /\ UNCHANGED <<isCircuitOpen, failureCount, resetTimers, trips, delays,
                   timerDue, lookups, sends>>

\* sendToUser after the awaited status update: line 131 / 142 return false,
\* lines 150-151 resetCircuitBreaker and return true
AfterStatusUpdate(n, rc) ==
    /\ call' = [call EXCEPT ![n][rc] = "end"]
    /\ IF call[n][rc] = "postThenTrue"
       THEN /\ isCircuitOpen' = FALSE
            /\ failureCount' = 0
       ELSE UNCHANGED <<isCircuitOpen, failureCount>>
    /\ UNCHANGED <<resetTimers, trips, delays, timerDue, outcomes, lookups, sends,
                   reports, statusStore>>

----------------------------------------------------------------------------
(* Push service: the consumer callback and the broker's answers to it *)

\* a nack that asks the broker to requeue
NackRequeue_Requeue == TRUE

\* consumer catch, line 173: channel.nack(msg, false, requeue)
NackRequeue == FALSE

\* the entry the broker adds to failed.queue when push.queue dead-letters m
DeadLetter(m) ==
    IF FailedQueue \in DefaultExchangeRoute(PushQueueArguments.deadLetterRoutingKey)
    THEN <<[kind |-> "dead-letter", msg |-> m, wrapped |-> FALSE, payload |-> body[m]]>>
    ELSE <<>>

\* moveToFailedQueue lines 100-109: the error payload wraps the parsed message
ErrorPayload(m) ==
    [kind |-> "error-payload", msg |-> m, wrapped |-> TRUE, payload |-> body[m]]

\* callback line 159: channel.ack(msg). With channel null the call throws a
\* TypeError inside the try block, the nack in the catch block throws again and
\* is logged: the broker hears nothing
HandlerAck(m) ==
    /\ hpc' = [hpc EXCEPT ![m] = "done"]
    /\ IF channel = "open"
       THEN /\ settled' = [settled EXCEPT ![m] = "ack"]
            /\ loc' = [loc EXCEPT ![m] = "gone"]
       ELSE UNCHANGED <<settled, loc>>
    /\ UNCHANGED <<failedQueue, deliveries, processed, threw>>

\* callback lines 163-176: the catch block; fq is failed.queue as the handler
\* left it. The broker dead-letters a message nacked without requeue
HandlerNack(m, fq) ==
    /\ hpc' = [hpc EXCEPT ![m] = "done"]
    /\ threw' = [threw EXCEPT ![m] = TRUE]
    /\ IF channel = "open"
       THEN /\ settled' = [settled EXCEPT ![m] = "nack"]
            /\ IF NackRequeue
               THEN /\ loc' = [loc EXCEPT ![m] = "ready"]
                    /\ failedQueue' = fq
               ELSE /\ loc' = [loc EXCEPT ![m] = "gone"]
                    /\ failedQueue' = fq \o DeadLetter(m)
       ELSE /\ failedQueue' = fq
            /\ UNCHANGED <<settled, loc>>

\* processPushNotification's catch, lines 74-83: moveToFailedQueue is awaited; it
\* returns at once when there is no channel, and the error is thrown on
MoveToFailedQueue(m) ==
    IF channel = "open"
    THEN /\ hpc' = [hpc EXCEPT ![m] = "assertQueue"]
         /\ threw' = [threw EXCEPT ![m] = TRUE]
         /\ UNCHANGED <<settled, loc, failedQueue>>
    ELSE HandlerNack(m, failedQueue)

----------------------------------------------------------------------------
(* Push service: actions *)

Unacked == {m \in Msgs : loc[m] = "unacked"}

\* a producer publishes to push.queue, and the status write of CreateNotifiation
\* that follows a publish is made for the id
Produce(m) ==
    /\ body[m] = "none"
    /\ \A k \in Msgs : k < m => body[k] # "none"
    /\ \E shape \in Shapes : body' = [body EXCEPT ![m] = shape]
    /\ statusStore' = SetNotificationStatus(NotificationOf(m), TRUE)
    /\ loc' = [loc EXCEPT ![m] = "ready"]
    /\ UNCHANGED <<failedQueue, varsConsumer, varsService, varsIngress, varsOther>>

\* setupConsumer's callback, lines 144-157, up to the first await of the handler
Deliver(m) ==
    /\ channel = "open"
    /\ loc[m] = "ready"
    /\ hpc[m] \in {"idle", "done"}
    /\ Cardinality(Unacked) < PREFETCH
    /\ deliveries' = [deliveries EXCEPT ![m] = @ + 1]
    /\ IF ~JsonParses(body[m])
       THEN /\ HandlerNack(m, failedQueue)
            /\ UNCHANGED processed
       ELSE /\ processed' = [processed EXCEPT ![m] = TRUE]
            /\ loc' = [loc EXCEPT ![m] = "unacked"]
            /\ UNCHANGED <<settled, failedQueue>>
            /\ IF Dispatch(body[m]) = "queue" /\ RequiredFieldsPresent(body[m])
               THEN /\ hpc' = [hpc EXCEPT ![m] = "getTemplate"]
                    /\ UNCHANGED threw
               ELSE IF Dispatch(body[m]) = "legacy"
               THEN /\ hpc' = [hpc EXCEPT ![m] = "legacySend"]
                    /\ UNCHANGED threw
               ELSE /\ hpc' = [hpc EXCEPT ![m] = "assertQueue"]
                    /\ threw' = [threw EXCEPT ![m] = TRUE]
    /\ UNCHANGED <<body, channel, varsService, statusStore, varsIngress, varsOther>>

\* processNotificationFromQueue lines 311-351: getTemplate answers; on success
\* the payload is built and sendToUser is called with retryCount 0
TemplateReturn(m) ==
    /\ hpc[m] = "getTemplate"
    /\ \E ok \in BOOLEAN :
         IF ok
         THEN /\ SendToUser(NotificationOf(m), 0)
              /\ hpc' = [hpc EXCEPT ![m] = "sendToUser"]
              /\ UNCHANGED <<loc, failedQueue, deliveries, settled, processed, threw>>
         ELSE /\ MoveToFailedQueue(m)
              /\ UNCHANGED <<deliveries, processed, varsService, statusStore>>
    /\ UNCHANGED <<body, channel, varsIngress, varsOther>>

\* the message's callback resumes when its sendToUser call (retryCount 0)
\* returns: neither false nor true throws, so the callback acks
Resume(n, rc) ==
    IF rc = 0
    THEN HandlerAck(n)
    ELSE UNCHANGED <<loc, failedQueue, hpc, deliveries, settled, processed, threw>>

\* sendToUser lines 136-143: getUserData answers
UserReturn(n, rc) ==
    /\ call[n][rc] = "lookup"
    /\ \E result \in {"error", "disabled", "ok"} :
         CASE result = "error" ->
                /\ HandleError(n, rc, "lookupFailed")
                /\ Resume(n, rc)
           [] result = "disabled" ->
                /\ UserDisabled(n, rc)
                /\ UNCHANGED <<loc, failedQueue, hpc, deliveries, settled, processed,
                               threw>>
           [] result = "ok" ->
                /\ StartSend(n, rc)
                /\ UNCHANGED <<loc, failedQueue, hpc, deliveries, settled, processed,
                               threw>>
    /\ UNCHANGED <<body, channel, varsIngress, varsOther>>

\* sendToUser lines 146-158: sendToDevice answers
SendReturn(n, rc) ==
    /\ call[n][rc] = "send"
    /\ \E ok \in BOOLEAN :
         IF ok
         THEN /\ Delivered(n, rc)
              /\ UNCHANGED <<loc, failedQueue, hpc, deliveries, settled, processed,
                             threw>>
         ELSE /\ HandleError(n, rc, "sendFailed")
              /\ Resume(n, rc)
    /\ UNCHANGED <<body, channel, varsIngress, varsOther>>

\* the awaited updateNotificationStatus of sendToUser settles: the POST answered
\* or failed. An error thrown by it would reach sendToUser's catch block
StatusUpdateReturn(n, rc) ==
    /\ call[n][rc] \in {"postThenFalse", "postThenTrue"}
    /\ \E postOk \in PostResults :
         IF UpdateNotificationStatusThrows(postOk)
         THEN HandleError(n, rc, "sendFailed")
         ELSE AfterStatusUpdate(n, rc)
    /\ Resume(n, rc)
    /\ UNCHANGED <<body, channel, varsIngress, varsOther>>

\* a timer that may fire before its delay is over
TimerElapsed_Early(remaining) == remaining >= 0

\* setTimeout(callback, delay): the callback runs once the delay is over
TimerElapsed(remaining) == remaining = 0

\* handleError lines 441-443: the retry timer fires
RetryTimerFires(n, rc) ==
    /\ call[n][rc] = "timer"
    /\ TimerElapsed(timerDue[n][rc])
    /\ SendToUser(n, rc)
    /\ UNCHANGED <<varsBroker, varsConsumer, varsIngress, varsOther>>

\* tripCircuitBreaker lines 454-456: a reset timer fires
ResetTimerFires ==
    /\ resetTimers # <<>>
    /\ TimerElapsed(Head(resetTimers))
    /\ resetTimers' = Tail(resetTimers)
    /\ isCircuitOpen' = FALSE
    /\ failureCount' = 0
    /\ UNCHANGED <<call, timerDue, outcomes, lookups, sends, delays, reports, trips,
                   statusStore, varsBroker, varsConsumer, varsIngress, varsOther>>

\* legacy branch of processPushNotification: sendToDevice answers
LegacySendReturn(m) ==
    /\ hpc[m] = "legacySend"
    /\ \E ok \in BOOLEAN :
         IF ok THEN HandlerAck(m)
               ELSE MoveToFailedQueue(m) /\ UNCHANGED <<deliveries, processed>>
    /\ UNCHANGED <<body, channel, varsService, statusStore, varsIngress, varsOther>>

\* moveToFailedQueue lines 99-113: assertQueue answers, the error payload is
\* written, the error is thrown on and the callback's catch block nacks. With the
\* connection gone assertQueue rejects and nothing is written
AssertQueueReturn(m) ==
    /\ hpc[m] = "assertQueue"
    /\ HandlerNack(m, IF channel = "open"
                      THEN Append(failedQueue, ErrorPayload(m))
                      ELSE failedQueue)
    /\ UNCHANGED <<deliveries, processed>>
    /\ UNCHANGED <<body, channel, varsService, statusStore, varsIngress, varsOther>>

\* setupConnectionHandlers lines 86-95: the connection closes, channel is set to
\* null, a reconnect is scheduled, and the broker requeues what was unacknowledged
ConnectionClosed ==
    /\ channel = "open"
    /\ channel' = "null"
    /\ reconnectTimer' = (reconnectTimer \/ reconnectAttempts < MAX_RECONNECT_ATTEMPTS)
    /\ loc' = [m \in Msgs |-> IF loc[m] = "unacked" THEN "ready" ELSE loc[m]]
    /\ UNCHANGED <<body, failedQueue, hpc, deliveries, settled, processed, threw,
                   varsService, statusStore, varsIngress, varsExpiry, varsTopology,
                   varsAux, brokerUp, isConnecting, reconnectAttempts, connectPc,
                   connectAttempts, connectResult>>

RetryTimers == {timerDue[n][rc] : n \in Msgs, rc \in RetryCounts} \ {-1}

PendingTimers == RetryTimers \cup {resetTimers[i] : i \in 1..Len(resetTimers)}

\* time passes until the next timer is due
AdvanceClock ==
    /\ PendingTimers # {}
    /\ \A t \in PendingTimers : t > 0
    /\ LET d == CHOOSE t \in PendingTimers : \A u \in PendingTimers : t <= u
       IN  /\ timerDue' = [n \in Msgs |-> [rc \in RetryCounts |->
                              IF timerDue[n][rc] = -1 THEN -1 ELSE timerDue[n][rc] - d]]
           /\ resetTimers' = [i \in 1..Len(resetTimers) |-> resetTimers[i] - d]
    /\ UNCHANGED <<isCircuitOpen, failureCount, call, outcomes, lookups, sends, delays,
                   reports, trips, varsBroker, varsConsumer, statusStore, varsIngress, varsOther>>

NextPush ==
    \/ \E m \in Msgs : Produce(m)
    \/ \E m \in Msgs : Deliver(m)
    \/ \E m \in Msgs : TemplateReturn(m)
    \/ \E n \in Msgs, rc \in RetryCounts : UserReturn(n, rc)
    \/ \E n \in Msgs, rc \in RetryCounts : SendReturn(n, rc)
    \/ \E n \in Msgs, rc \in RetryCounts : StatusUpdateReturn(n, rc)
    \/ \E n \in Msgs, rc \in RetryCounts : RetryTimerFires(n, rc)
    \/ ResetTimerFires
    \/ \E m \in Msgs : LegacySendReturn(m)
    \/ \E m \in Msgs : AssertQueueReturn(m)
    \/ ConnectionClosed
    \/ AdvanceClock

SpecPush == InitPush /\ [][NextPush]_vars

----------------------------------------------------------------------------
(* Gateway: the handler of POST /notifications *)

InitIngress ==
    /\ req = [r \in Requests |-> NoRequest]
    /\ idempotency = [k \in IdempotencyKeys |-> 0]
    /\ statusStore = [n \in Requests |-> "none"]
    /\ exchangeQueues = [q \in QueueNames |-> <<>>]
    /\ publishCalls = [r \in Requests |-> 0]
    /\ storeFault = FALSE
    /\ overlap = FALSE
    /\ InitPushSide
    /\ InitExpiry
    /\ InitTopology
    /\ InitAux
    /\ InitConnect

\* CreateNotifiation, lines 32-45: bind and validate, draw the id, read the header
Submit(r) ==
    /\ req[r].pc = "new"
    /\ \A q \in Requests : q < r => req[q].pc # "new"
    /\ \E type \in InputTypes, priority \in InputPriorities, key \in InputKeys :
         req' = [req EXCEPT ![r] =
                   IF ~ShouldBindJSON(type, priority)
                   THEN [NoRequest EXCEPT !.pc = "done", !.type = type,
                                          !.priority = priority, !.key = key,
                                          !.code = 400]
                   ELSE [NoRequest EXCEPT !.pc = IF key # "" THEN "lookup" ELSE "publish",
                                          !.type = type, !.priority = priority,
                                          !.key = key]]
    /\ overlap' = (overlap \/ \E q \in Requests : InFlight(q))
    /\ UNCHANGED <<idempotency, statusStore, exchangeQueues, publishCalls, storeFault, varsPushSide, varsOther>>

\* lines 47-60: GetIdempotencyKey; a hit answers 200 with the stored id
LookupKey(r) ==
    /\ req[r].pc = "lookup"
    /\ \E redisOk \in BOOLEAN :
         /\ req' = [req EXCEPT ![r] =
                      IF redisOk /\ idempotency[req[r].key] # 0
                      THEN [@ EXCEPT !.pc = "done", !.code = 200,
                                     !.respId = idempotency[req[r].key]]
                      ELSE [@ EXCEPT !.pc = "store"]]
         /\ storeFault' = (storeFault \/ ~redisOk)
    /\ UNCHANGED <<idempotency, statusStore, exchangeQueues, publishCalls, overlap, varsPushSide, varsOther>>

\* line 62: SetIdempotencyKey(key, notificationID, 24h), error ignored
StoreKey(r) ==
    /\ req[r].pc = "store"
    /\ \E redisOk \in BOOLEAN :
         /\ idempotency' = IF redisOk /\ RedisMarshals(IdempotencyValue)
                           THEN [idempotency EXCEPT ![req[r].key] = NewNotificationID(r)]
                           ELSE idempotency
         /\ storeFault' = (storeFault \/ ~redisOk)
    /\ req' = [req EXCEPT ![r].pc = "publish"]
    /\ UNCHANGED <<statusStore, exchangeQueues, publishCalls, overlap, varsPushSide, varsOther>>

\* the routing key the handler publishes with (line 83)
RoutingKey(r) == req[r].type

\* a handler that publishes again after an error
OnPublishError_Retry(r) == [req[r] EXCEPT !.pc = "publish"]

\* lines 86-89: Publish returned an error: answer 500 and return
OnPublishError(r) == [req[r] EXCEPT !.pc = "done", !.code = 500]

\* a handler that answers 500 when the status write returns an error
Accepted_UnlessWriteError(r, writeErr) ==
    IF writeErr
    THEN [req[r] EXCEPT !.pc = "done", !.code = 500,
                        !.statusWrites = @ + 1]
    ELSE [req[r] EXCEPT !.pc = "done", !.code = 202,
                        !.respId = NewNotificationID(r), !.respStatus = "pending",
                        !.statusWrites = @ + 1]

\* lines 100-110: the error of SetNotificationStatus is dropped ("_ ="), the
\* answer is 202 with the new id and status "pending"
Accepted(r, writeErr) ==
    [req[r] EXCEPT !.pc = "done", !.code = 202,
                   !.respId = NewNotificationID(r), !.respStatus = "pending",
                   !.statusWrites = @ + 1]

\* lines 66-89: build the message and Publish; an error answers 500
Publish(r) ==
    /\ req[r].pc = "publish"
    /\ publishCalls' = [publishCalls EXCEPT ![r] = @ + 1]
    /\ \E brokerOk \in BOOLEAN :
         IF brokerOk
         THEN /\ exchangeQueues' =
                   [q \in QueueNames |->
                      IF q \in Route(RoutingKey(r))
                      THEN Append(exchangeQueues[q],
                                  [notification_id |-> NewNotificationID(r),
                                   type |-> req[r].type,
                                   priority |-> req[r].priority])
                      ELSE exchangeQueues[q]]
              /\ req' = [req EXCEPT ![r].pc = "status"]
         ELSE /\ req' = [req EXCEPT ![r] = OnPublishError(r)]
              /\ UNCHANGED exchangeQueues
    /\ UNCHANGED <<idempotency, statusStore, storeFault, overlap, varsPushSide, varsOther>>

\* lines 92-110: SetNotificationStatus(pending, 7 days), error ignored; answer 202
WriteStatus(r) ==
    /\ req[r].pc = "status"
    /\ \E redisOk \in BOOLEAN :
         /\ statusStore' = SetNotificationStatus(NewNotificationID(r), redisOk)
         /\ storeFault' = (storeFault \/ ~redisOk)
         /\ req' = [req EXCEPT ![r] =
                      Accepted(r, ~(redisOk /\ RedisMarshals(StatusRecordValue)))]
    /\ UNCHANGED <<idempotency, exchangeQueues, publishCalls, overlap, varsPushSide, varsOther>>

NextIngress ==
    \/ \E r \in Requests : Submit(r)
    \/ \E r \in Requests : LookupKey(r)
    \/ \E r \in Requests : StoreKey(r)
    \/ \E r \in Requests : Publish(r)
    \/ \E r \in Requests : WriteStatus(r)

SpecIngress == InitIngress /\ [][NextIngress]_vars

----------------------------------------------------------------------------
(* Gateway: the status record and its expiry in Redis *)

\* CreateNotifiation line 100: expiration 7*24*time.Hour, in days
STATUS_TTL_DAYS == 7

\* Redis SET with an expiration: the day the key goes away, for a key that exists
ExpiryAfterSet(n, store) ==
    IF store[n] # "none" THEN day + STATUS_TTL_DAYS ELSE statusExpiry[n]

InitExpirySpec ==
    /\ req = [r \in Requests |-> NoRequest]
    /\ idempotency = [k \in IdempotencyKeys |-> 0]
    /\ statusStore = [n \in Requests |-> "none"]
    /\ exchangeQueues = [q \in QueueNames |-> <<>>]
    /\ publishCalls = [r \in Requests |-> 0]
    /\ storeFault = FALSE
    /\ overlap = FALSE
    /\ InitPushSide
    /\ InitExpiry
    /\ InitTopology
    /\ InitAux
    /\ InitConnect

\* CreateNotifiation lines 92-100 for the fresh id n, after a successful publish:
\* the status write with its 7-day expiration
StatusWrite(n) ==
    /\ createdAt[n] = -1
    /\ \A k \in Requests : k < n => createdAt[k] # -1
    /\ \E redisOk \in BOOLEAN :
         /\ statusStore' = SetNotificationStatus(n, redisOk)
         /\ statusExpiry' = [statusExpiry EXCEPT
                               ![n] = ExpiryAfterSet(n, SetNotificationStatus(n, redisOk))]
         /\ storeFault' = (storeFault \/ ~redisOk)
    /\ createdAt' = [createdAt EXCEPT ![n] = day]
    /\ UNCHANGED <<day, req, idempotency, exchangeQueues, publishCalls, overlap,
                   varsPushSide, varsTopology, varsConnect, varsAux>>

\* a day passes; Redis drops the keys whose expiration is reached
DayPasses ==
    /\ day < MaxDay
    /\ day' = day + 1
    /\ statusStore' = [n \in Requests |->
                         IF statusExpiry[n] # -1 /\ statusExpiry[n] <= day + 1
                         THEN "none" ELSE statusStore[n]]
    /\ statusExpiry' = [n \in Requests |->
                          IF statusExpiry[n] # -1 /\ statusExpiry[n] <= day + 1
                          THEN -1 ELSE statusExpiry[n]]
    /\ UNCHANGED <<createdAt, varsIngress, varsPushSide, varsTopology, varsConnect, varsAux>>

NextExpiry ==
    \/ \E n \in Requests : StatusWrite(n)
    \/ DayPasses

SpecExpiry == InitExpirySpec /\ [][NextExpiry]_vars

----------------------------------------------------------------------------
(* Broker topology: RabbitMQClient.setup (gateway) and setupQueues (push service) *)

\* RabbitMQClient.setup lines 73-81 and 86-93: the queues it declares, in order,
\* each durable with nil arguments, and the routing key it binds each with
GatewayDeclarations ==
    << [queue |-> EmailQueue, arguments |-> NoArguments, routingKey |-> "email"],
       [queue |-> PushQueue, arguments |-> NoArguments, routingKey |-> "push"],
       [queue |-> FailedQueue, arguments |-> NoArguments, routingKey |-> "failed"] >>

\* setupQueues lines 114-126: the queues it asserts, in order
PushDeclarations ==
    << [queue |-> PushQueue, arguments |-> PushQueueArguments],
       [queue |-> FailedQueue, arguments |-> NoArguments] >>

Declarations(s) == IF s = "gateway" THEN GatewayDeclarations ELSE PushDeclarations

\* queue.declare on the broker: a new queue is created; an existing one must have
\* equal arguments, otherwise the broker answers PRECONDITION_FAILED
DeclareOk(q, arguments) ==
    ~brokerQueues[q].exists \/ brokerQueues[q].arguments = arguments

\* RabbitMQClient.setup lines 99-111: the bind is skipped for the failed queue
BindsQueue(s, d) == s = "gateway" /\ d.queue # FailedQueue

Starting == {s \in Services : setupPc[s] # 0}

InitTopologySpec ==
    /\ req = [r \in Requests |-> NoRequest]
    /\ idempotency = [k \in IdempotencyKeys |-> 0]
    /\ statusStore = [n \in Requests |-> "none"]
    /\ exchangeQueues = [q \in QueueNames |-> <<>>]
    /\ publishCalls = [r \in Requests |-> 0]
    /\ storeFault = FALSE
    /\ overlap = FALSE
    /\ InitPushSide
    /\ InitExpiry
    /\ InitTopology
    /\ InitAux
    /\ InitConnect

\* a process of service s starts and reaches its topology setup
BeginSetup(s) ==
    /\ setupPc[s] = 0
    /\ Len(startLog) + Cardinality(Starting) < MaxStartups
    /\ setupPc' = [setupPc EXCEPT ![s] = 1]
    /\ UNCHANGED <<brokerQueues, brokerBindings, startLog, statusStore, varsIngress,
                   varsPushSide, varsExpiry, varsConnect, varsAux>>

\* the next declaration of s's setup: on an error the setup returns it (the
\* startup fails); after the last declaration the setup has succeeded
Declare(s) ==
    /\ setupPc[s] # 0
    /\ LET d == Declarations(s)[setupPc[s]]
       IN  IF DeclareOk(d.queue, d.arguments)
           THEN /\ brokerQueues' = [brokerQueues EXCEPT
                                      ![d.queue] = [exists |-> TRUE,
                                                    arguments |-> IF @.exists THEN @.arguments
                                                                  ELSE d.arguments]]
                /\ brokerBindings' = IF BindsQueue(s, d)
                                     THEN brokerBindings \cup {<<d.routingKey, d.queue>>}
                                     ELSE brokerBindings
                /\ IF setupPc[s] = Len(Declarations(s))
                   THEN /\ setupPc' = [setupPc EXCEPT ![s] = 0]
                        /\ startLog' = Append(startLog, [service |-> s, ok |-> TRUE])
                   ELSE /\ setupPc' = [setupPc EXCEPT ![s] = @ + 1]
                        /\ UNCHANGED startLog
           ELSE /\ setupPc' = [setupPc EXCEPT ![s] = 0]
                /\ startLog' = Append(startLog, [service |-> s, ok |-> FALSE])
                /\ UNCHANGED <<brokerQueues, brokerBindings>>
    /\ UNCHANGED <<statusStore, varsIngress, varsPushSide, varsExpiry, varsConnect, varsAux>>

NextTopology ==
    \/ \E s \in Services : BeginSetup(s)
    \/ \E s \in Services : Declare(s)

SpecTopology == InitTopologySpec /\ [][NextTopology]_vars

----------------------------------------------------------------------------
(* Push service: connectToRabbitMQ and the reconnect after a lost connection *)

InitConnectSpec ==
    /\ req = [r \in Requests |-> NoRequest]
    /\ idempotency = [k \in IdempotencyKeys |-> 0]
    /\ statusStore = [n \in Requests |-> "none"]
    /\ exchangeQueues = [q \in QueueNames |-> <<>>]
    /\ publishCalls = [r \in Requests |-> 0]
    /\ storeFault = FALSE
    /\ overlap = FALSE
    /\ body = [m \in Msgs |-> "none"]
    /\ loc = [m \in Msgs |-> "none"]
    /\ failedQueue = <<>>
    /\ channel = "null"
    /\ hpc = [m \in Msgs |-> "idle"]
    /\ deliveries = [m \in Msgs |-> 0]
    /\ settled = [m \in Msgs |-> "none"]
    /\ processed = [m \in Msgs |-> FALSE]
    /\ threw = [m \in Msgs |-> FALSE]
    /\ isCircuitOpen = FALSE
    /\ failureCount = 0
    /\ call = [n \in Msgs |-> [rc \in RetryCounts |-> "none"]]
    /\ timerDue = [n \in Msgs |-> [rc \in RetryCounts |-> -1]]
    /\ resetTimers = <<>>
    /\ outcomes = [n \in Msgs |-> [o \in Outcomes |-> 0]]
    /\ lookups = [n \in Msgs |-> 0]
    /\ sends = [n \in Msgs |-> 0]
    /\ delays = [n \in Msgs |-> <<>>]
    /\ reports = [n \in Msgs |-> <<>>]
    /\ trips = 0
    /\ InitExpiry
    /\ InitTopology
    /\ InitAux
    /\ brokerUp \in BOOLEAN
    /\ isConnecting = FALSE
    /\ reconnectAttempts = 0
    /\ connectPc = "idle"
    /\ reconnectTimer = FALSE
    /\ connectAttempts = 0
    /\ connectResult = "none"

\* connectToRabbitMQ lines 31-43, entered: with isConnecting set it logs
\* 'Connection attempt already in progress' and returns (the promise resolves);
\* otherwise it sets isConnecting and awaits amqplib's connect()
EnterConnect ==
    IF isConnecting
    THEN /\ connectPc' = "idle"
         /\ connectResult' = "resolved"
         /\ isConnecting' = FALSE
         /\ UNCHANGED connectAttempts
    ELSE /\ connectAttempts < MaxConnects
         /\ connectPc' = "connect"
         /\ connectResult' = "pending"
         /\ isConnecting' = TRUE
         /\ connectAttempts' = connectAttempts + 1

\* start, line 13: await connectToRabbitMQ()
Start ==
    /\ connectPc = "idle"
    /\ connectResult = "none"
    /\ EnterConnect
    /\ UNCHANGED <<brokerUp, reconnectAttempts, reconnectTimer, channel>>
    /\ UNCHANGED <<varsBroker, hpc, deliveries, settled, processed, threw, varsService,
                   statusStore, varsIngress, varsExpiry, varsTopology, varsAux>>

\* connectToRabbitMQ lines 43-78: connect() answers. Success stores the channel,
\* resets reconnectAttempts and, through finally, clears isConnecting. A failure
\* with budget left counts the attempt and waits retryDelay inside the catch block,
\* with isConnecting still set; without budget the call rejects
ConnectReturn ==
    /\ connectPc = "connect"
    /\ IF brokerUp
       THEN /\ channel' = "open"
            /\ reconnectAttempts' = 0
            /\ isConnecting' = FALSE
            /\ connectPc' = "idle"
            /\ connectResult' = "resolved"
       ELSE IF reconnectAttempts < DEFAULT_MAX_RETRIES
       THEN /\ reconnectAttempts' = reconnectAttempts + 1
            /\ connectPc' = "delay"
            /\ UNCHANGED <<channel, isConnecting, connectResult>>
       ELSE /\ connectResult' = "rejected"
            /\ isConnecting' = FALSE
            /\ connectPc' = "idle"
            /\ UNCHANGED <<channel, reconnectAttempts>>
    /\ UNCHANGED <<brokerUp, reconnectTimer, connectAttempts>>
    /\ UNCHANGED <<varsBroker, hpc, deliveries, settled, processed, threw, varsService,
                   statusStore, varsIngress, varsExpiry, varsTopology, varsAux>>

\* connectToRabbitMQ lines 72-73: the delay is over and the catch block returns
\* connectToRabbitMQ(maxRetries, retryDelay); finally has not run yet
RetryAfterDelay ==
    /\ connectPc = "delay"
    /\ EnterConnect
    /\ UNCHANGED <<brokerUp, reconnectAttempts, reconnectTimer, channel>>
    /\ UNCHANGED <<varsBroker, hpc, deliveries, settled, processed, threw, varsService,
                   statusStore, varsIngress, varsExpiry, varsTopology, varsAux>>

\* setupConnectionHandlers line 94: the reconnect timer calls connectToRabbitMQ()
ReconnectTimerFires ==
    /\ reconnectTimer
    /\ connectPc = "idle"
    /\ reconnectTimer' = FALSE
    /\ EnterConnect
    /\ UNCHANGED <<brokerUp, reconnectAttempts, channel>>
    /\ UNCHANGED <<varsBroker, hpc, deliveries, settled, processed, threw, varsService,
                   statusStore, varsIngress, varsExpiry, varsTopology, varsAux>>

\* the broker goes away or comes back
BrokerChanges ==
    /\ brokerUp' = ~brokerUp
    /\ UNCHANGED <<isConnecting, reconnectAttempts, connectPc, reconnectTimer,
                   connectAttempts, connectResult>>
    /\ UNCHANGED <<varsPushSide, statusStore, varsIngress, varsExpiry, varsTopology, varsAux>>

NextConnect ==
    \/ Start
    \/ ConnectReturn
    \/ RetryAfterDelay
    \/ ReconnectTimerFires
    \/ ConnectionClosed
    \/ BrokerChanges

SpecConnect == InitConnectSpec /\ [][NextConnect]_vars

----------------------------------------------------------------------------
(* Gateway: the rate limiter in front of the routes, for one identifier *)

\* main.go line 56: NewRateLimiter(redisClient, 100, time.Minute)
RATE_LIMIT_MAX == 100
RATE_LIMIT_WINDOW == 60

\* how the pipeline of IncrementRateLimit can end: both commands applied, an error
\* with nothing applied, or an error after INCR was applied (EXPIRE failed, or the
\* reply was lost)
RedisResults == {"ok", "error", "partial"}

\* a limiter that lets one request more through
RateLimitExceeded_OffByOne(count) == count > RATE_LIMIT_MAX + 1

\* RateLimit line 53: count > rl.maxRequests
RateLimitExceeded(count) == count > RATE_LIMIT_MAX

\* IncrementRateLimit lines 207-221: the counter after the pipeline
CounterAfter(result) == IF result = "error" THEN rlCount ELSE rlCount + 1

\* IncrementRateLimit line 212: EXPIRE sets the key's TTL to the window anew
TtlAfter(result) == IF result = "ok" THEN RATE_LIMIT_WINDOW ELSE rlTtl

\* RateLimit lines 39-59: an error of IncrementRateLimit lets the request through
RateLimitAnswer(result) ==
    IF result # "ok" THEN "handler"
    ELSE IF RateLimitExceeded(CounterAfter(result)) THEN "429"
    ELSE "handler"

InitRateSpec == InitIngress

\* one request of the identifier passes through RateLimit
RateLimit ==
    /\ rlCount < MaxCounter
    /\ \E result \in RedisResults :
         /\ result # "ok" => rlUncounted < MaxFaults
         /\ rlCount' = CounterAfter(result)
         /\ rlTtl' = TtlAfter(result)
         /\ rlLast' = [redis |-> result,
                       count |-> IF result = "ok" THEN CounterAfter(result) ELSE 0,
                       code |-> RateLimitAnswer(result)]
         /\ rlPassed' = IF RateLimitAnswer(result) = "handler" /\ CounterAfter(result) > 0
                        THEN rlPassed + 1 ELSE rlPassed
         /\ rlUncounted' = IF result # "ok" /\ CounterAfter(result) > 0
                           THEN rlUncounted + 1 ELSE rlUncounted
    /\ rlSentNow' = TRUE
    /\ rlPaced' = (rlPaced /\ ~rlSentNow)
    /\ UNCHANGED <<statusStore, varsIngress, varsPushSide, varsExpiry, varsTopology,
                   varsConnect, varsAuth, varsTokens,
                   varsRender, varsAck>>

\* TickSeconds pass; Redis removes a key whose TTL is over
RateClockAdvances ==
    /\ rlSentNow' = FALSE
    /\ IF rlTtl # -1 /\ rlTtl - TickSeconds <= 0
       THEN /\ rlCount' = 0
            /\ rlTtl' = -1
            /\ rlPassed' = 0
            /\ rlUncounted' = 0
       ELSE /\ rlTtl' = IF rlTtl = -1 THEN -1 ELSE rlTtl - TickSeconds
            /\ UNCHANGED <<rlCount, rlPassed, rlUncounted>>
    /\ UNCHANGED <<rlLast, rlPaced>>
    /\ UNCHANGED <<statusStore, varsIngress, varsPushSide, varsExpiry, varsTopology,
                   varsConnect, varsAuth, varsTokens,
                   varsRender, varsAck>>

NextRate ==
    \/ RateLimit
    \/ RateClockAdvances

SpecRate == InitRateSpec /\ [][NextRate]_vars

----------------------------------------------------------------------------
(* User service: login, logout and refresh of the refresh token *)

\* generateTokens lines 13-19: jwt.sign of {userId, role} with the refresh secret
\* and expiresIn 7d. The token is a function of the payload and of the second it
\* is signed in (iat, from which exp follows): two calls for one user within one
\* second return the same string
GenerateRefreshToken(u, second) == [user |-> u, iat |-> second]

\* the refresh tokens the service has handed out so far, and a string that
\* jwt.verify does not accept
PresentableTokens ==
    UNION {retiredTokens[u] : u \in Users}
        \cup ({storedToken[u] : u \in Users} \ {NoToken})
        \cup {GarbageToken}

\* refreshToken line 59: user.refreshToken !== token rejects
RefreshTokenMatches(stored, token) == stored = token

\* prisma.user.update({refreshToken: t}): the token it replaces is no longer the
\* user's current token
RetiredAfter(u) ==
    IF storedToken[u] = NoToken THEN retiredTokens
    ELSE [retiredTokens EXCEPT ![u] = @ \cup {storedToken[u]}]

InitAuthSpec == InitIngress

\* login lines 85-131: a wrong password answers 400; otherwise new tokens are
\* generated and the refresh token is stored
Login(u) ==
    /\ \E passwordOk \in BOOLEAN :
         IF passwordOk
         THEN /\ storedToken' = [storedToken EXCEPT ![u] = GenerateRefreshToken(u, authClock)]
              /\ retiredTokens' = RetiredAfter(u)
              /\ authLast' = [op |-> "login", user |-> u, code |-> 200]
         ELSE /\ authLast' = [op |-> "login", user |-> u, code |-> 400]
              /\ UNCHANGED <<storedToken, retiredTokens>>
    /\ UNCHANGED <<authClock, refreshReq>>
    /\ UNCHANGED <<statusStore, varsIngress, varsPushSide, varsExpiry, varsTopology,
                   varsConnect, varsRate, varsTokens,
                   varsRender, varsAck>>

\* logoutUser lines 20-45: with a valid access token of u the stored refresh token
\* is cleared; otherwise 401
Logout(u) ==
    /\ \E accessOk \in BOOLEAN :
         IF accessOk
         THEN /\ storedToken' = [storedToken EXCEPT ![u] = NoToken]
              /\ retiredTokens' = RetiredAfter(u)
              /\ authLast' = [op |-> "logout", user |-> u, code |-> 200]
         ELSE /\ authLast' = [op |-> "logout", user |-> u, code |-> 401]
              /\ UNCHANGED <<storedToken, retiredTokens>>
    /\ UNCHANGED <<authClock, refreshReq>>
    /\ UNCHANGED <<statusStore, varsIngress, varsPushSide, varsExpiry, varsTopology,
                   varsConnect, varsRate, varsTokens,
                   varsRender, varsAck>>

\* refreshToken lines 51-65: jwt.verify, the user is read and compared with the
\* token; on a match the new tokens are generated and the update is sent
RefreshRead(s) ==
    /\ refreshReq[s].pc # "update"
    /\ \E token \in PresentableTokens :
         IF token = GarbageToken
         THEN refreshReq' = [refreshReq EXCEPT ![s] =
                  [pc |-> "done", token |-> token, user |-> 0, newToken |-> NoToken,
                   wasRetired |-> FALSE, code |-> 401]]
         ELSE LET u == token.user IN
              IF RefreshTokenMatches(storedToken[u], token)
              THEN refreshReq' = [refreshReq EXCEPT ![s] =
                       [pc |-> "update", token |-> token, user |-> u,
                        newToken |-> GenerateRefreshToken(u, authClock),
                        wasRetired |-> token \in retiredTokens[u], code |-> 0]]
              ELSE refreshReq' = [refreshReq EXCEPT ![s] =
                       [pc |-> "done", token |-> token, user |-> u, newToken |-> NoToken,
                        wasRetired |-> token \in retiredTokens[u], code |-> 401]]
    /\ UNCHANGED <<authClock, storedToken, retiredTokens, authLast>>
    /\ UNCHANGED <<statusStore, varsIngress, varsPushSide, varsExpiry, varsTopology,
                   varsConnect, varsRate, varsTokens,
                   varsRender, varsAck>>

\* refreshToken lines 67-76: the update is applied and the new tokens are returned
RefreshUpdate(s) ==
    /\ refreshReq[s].pc = "update"
    /\ storedToken' = [storedToken EXCEPT ![refreshReq[s].user] = refreshReq[s].newToken]
    /\ retiredTokens' = RetiredAfter(refreshReq[s].user)
    /\ refreshReq' = [refreshReq EXCEPT ![s].pc = "done", ![s].code = 200]
    /\ UNCHANGED <<authClock, authLast>>
    /\ UNCHANGED <<statusStore, varsIngress, varsPushSide, varsExpiry, varsTopology,
                   varsConnect, varsRate, varsTokens,
                   varsRender, varsAck>>

\* a second passes
AuthClockAdvances ==
    /\ authClock < MaxAuthSeconds
    /\ authClock' = authClock + 1
    /\ UNCHANGED <<storedToken, retiredTokens, refreshReq, authLast>>
    /\ UNCHANGED <<statusStore, varsIngress, varsPushSide, varsExpiry, varsTopology,
                   varsConnect, varsRate, varsTokens,
                   varsRender, varsAck>>

NextAuth ==
    \/ \E u \in Users : Login(u)
    \/ \E u \in Users : Logout(u)
    \/ \E s \in RefreshSlots : RefreshRead(s)
    \/ \E s \in RefreshSlots : RefreshUpdate(s)
    \/ AuthClockAdvances

SpecAuth == InitAuthSpec /\ [][NextAuth]_vars

----------------------------------------------------------------------------
(* User service: PATCH and DELETE /users/push-token/:id *)

\* a handler that does not compare the owner
OwnedBy_Unchecked(owner, userId) == TRUE

\* updatePushTokenById line 240, deletePushTokenById line 276:
\* existing.userId !== userId answers 403
OwnedBy(owner, userId) == owner = userId

\* verifyToken and the handlers up to their write: the answer that ends the
\* request, 0 if it goes on to prisma.pushToken.update / delete
PushTokenCheck(kind, auth, id, bodyField) ==
    IF auth = 0 THEN 401
    ELSE IF pushTokens[id].owner = 0 THEN 404
    ELSE IF ~OwnedBy(pushTokens[id].owner, auth) THEN 403
    ELSE IF kind = "PATCH" /\ bodyField = "none" THEN 400
    ELSE 0

InitTokensSpec == InitIngress

\* addPushToken lines 192-222: a token of the authenticated user is created under a
\* fresh id
AddPushToken(u) ==
    /\ nextTokenId <= MaxTokens
    /\ pushTokens' = [pushTokens EXCEPT ![nextTokenId] = [owner |-> u, device_name |-> "Old"]]
    /\ nextTokenId' = nextTokenId + 1
    /\ UNCHANGED tokenReq
    /\ UNCHANGED <<statusStore, varsIngress, varsPushSide, varsExpiry, varsTopology,
                   varsConnect, varsRate, varsAuth,
                   varsRender, varsAck>>

\* verifyToken, then the handler up to the answer of findUnique and its checks
PushTokenRead(s) ==
    /\ tokenReq[s].pc = "idle"
    /\ \A t \in TokenSlots : t < s => tokenReq[t].pc # "idle"
    /\ \E kind \in {"PATCH", "DELETE"}, auth \in Users \cup {0}, id \in TokenIds,
          bodyField \in {"none", "device_name"} :
         LET code == PushTokenCheck(kind, auth, id, bodyField) IN
         tokenReq' = [tokenReq EXCEPT ![s] =
                        [pc |-> IF code = 0 THEN "write" ELSE "done",
                         kind |-> kind, auth |-> auth, id |-> id, bodyField |-> bodyField,
                         sawOwner |-> IF auth = 0 THEN -1 ELSE pushTokens[id].owner,
                         code |-> code]]
    /\ UNCHANGED <<pushTokens, nextTokenId>>
    /\ UNCHANGED <<statusStore, varsIngress, varsPushSide, varsExpiry, varsTopology,
                   varsConnect, varsRate, varsAuth,
                   varsRender, varsAck>>

\* prisma.pushToken.update / delete answers; for a record that is gone by now it
\* throws, and the catch block answers 500
PushTokenWrite(s) ==
    /\ tokenReq[s].pc = "write"
    /\ LET r == tokenReq[s] IN
       IF pushTokens[r.id].owner = 0
       THEN /\ tokenReq' = [tokenReq EXCEPT ![s].pc = "done", ![s].code = 500]
            /\ UNCHANGED pushTokens
       ELSE IF r.kind = "PATCH"
       THEN /\ pushTokens' = [pushTokens EXCEPT ![r.id].device_name = "New"]
            /\ tokenReq' = [tokenReq EXCEPT ![s].pc = "done", ![s].code = 200]
       ELSE /\ pushTokens' = [pushTokens EXCEPT ![r.id] = NoPushToken]
            /\ tokenReq' = [tokenReq EXCEPT ![s].pc = "done", ![s].code = 204]
    /\ UNCHANGED nextTokenId
    /\ UNCHANGED <<statusStore, varsIngress, varsPushSide, varsExpiry, varsTopology,
                   varsConnect, varsRate, varsAuth,
                   varsRender, varsAck>>

NextTokens ==
    \/ \E u \in Users : AddPushToken(u)
    \/ \E s \in TokenSlots : PushTokenRead(s)
    \/ \E s \in TokenSlots : PushTokenWrite(s)

SpecTokens == InitTokensSpec /\ [][NextTokens]_vars

----------------------------------------------------------------------------
(* Push service: template substitution (replaceVariables) *)

\* processNotificationFromQueue lines 316-320: { name, link if truthy, ...meta };
\* the entries of meta are spread last and win over name and link
FlattenedVariables(v) ==
    v.meta @@ [k \in {"name"} \cup (IF Truthy(v.link) THEN {"link"} ELSE {}) |-> v[k]]

\* the replacer of replaceVariables, lines 286-288, for one token of the template
Replacer(token, flattened) ==
    IF /\ token.kind = "placeholder"
       /\ MatchesWord(token.val)
       /\ Get(flattened, token.val) # JsUndefined
    THEN String(Get(flattened, token.val))
    ELSE <<token>>

\* replaceVariables lines 283-290: one pass of String.prototype.replace over the
\* template; what the replacer returns is not scanned again
RECURSIVE ReplaceVariables(_, _)
ReplaceVariables(tpl, flattened) ==
    IF tpl = <<>> THEN <<>>
    ELSE Replacer(Head(tpl), flattened) \o ReplaceVariables(Tail(tpl), flattened)

\* a template and the variables of a message are given
InitRenderSpec ==
    /\ req = [r \in Requests |-> NoRequest]
    /\ idempotency = [k \in IdempotencyKeys |-> 0]
    /\ statusStore = [n \in Requests |-> "none"]
    /\ exchangeQueues = [q \in QueueNames |-> <<>>]
    /\ publishCalls = [r \in Requests |-> 0]
    /\ storeFault = FALSE
    /\ overlap = FALSE
    /\ InitPushSide
    /\ InitExpiry
    /\ InitTopology
    /\ InitConnect
    /\ InitRate
    /\ InitAuth
    /\ InitTokens
    /\ InitAck
    /\ template \in Templates
    /\ variables \in [name : NameValues, link : LinkValues, meta : MetaValues]
    /\ rendered = <<>>
    /\ renderPc = "start"

\* processNotificationFromQueue lines 316-323: the variables are flattened and the
\* template string is rendered
Render ==
    /\ renderPc = "start"
    /\ rendered' = ReplaceVariables(template, FlattenedVariables(variables))
    /\ renderPc' = "done"
    /\ UNCHANGED <<template, variables, statusStore, varsIngress, varsPushSide,
                   varsExpiry, varsTopology, varsConnect, varsRate, varsAuth,
                   varsTokens, varsAck>>

NextRender == Render

SpecRender == InitRenderSpec /\ [][NextRender]_vars

----------------------------------------------------------------------------
(* Push service: acknowledgements across reconnects *)

InitAckSpec == InitIngress

\* what the consumer callback and the connection handlers leave alone
AckFrame ==
    UNCHANGED <<statusStore, varsIngress, varsPushSide, varsExpiry, varsTopology,
                varsConnect, varsRate, varsAuth, varsTokens, varsRender>>

\* setupConsumer lines 144-156: the broker delivers m on the live channel; the
\* callback finds msg and channel set and awaits processPushNotification. A
\* message is handled by one callback at a time
ConsumeCallback(m) ==
    /\ channelId # 0
    /\ ackLoc[m] = "ready"
    /\ handling[m] = 0
    /\ ackLoc' = [ackLoc EXCEPT ![m] = "unacked"]
    /\ deliveredOn' = [deliveredOn EXCEPT ![m] = channelId]
    /\ handling' = [handling EXCEPT ![m] = channelId]
    /\ UNCHANGED <<channelsCreated, channelId, ackLog>>
    /\ AckFrame

\* setupConsumer lines 158 and 171-176: the handler returned or threw, and the
\* callback calls ack or nack on the module's channel as it is now. With channel
\* null the call throws a TypeError that the catch blocks swallow; a frame for a
\* delivery of another channel does not settle the message
CallbackSettles(m) ==
    /\ handling[m] # 0
    /\ handling' = [handling EXCEPT ![m] = 0]
    /\ \E kind \in {"ack", "nack"} :
         IF channelId = 0
         THEN UNCHANGED <<ackLog, ackLoc>>
         ELSE /\ ackLog' = Append(ackLog, [msg |-> m, kind |-> kind, on |-> channelId,
                                           delivery |-> handling[m]])
              /\ ackLoc' = [ackLoc EXCEPT ![m] =
                              IF channelId = handling[m] /\ @ = "unacked"
                              THEN "settled" ELSE @]
    /\ UNCHANGED <<channelsCreated, channelId, deliveredOn>>
    /\ AckFrame

\* setupConnectionHandlers lines 86-89: the connection closes, channel is set to
\* null, and the broker requeues what the channel had not acknowledged
CloseHandler ==
    /\ channelId # 0
    /\ channelId' = 0
    /\ ackLoc' = [m \in AckMsgs |-> IF ackLoc[m] = "unacked" THEN "ready" ELSE ackLoc[m]]
    /\ UNCHANGED <<channelsCreated, deliveredOn, handling, ackLog>>
    /\ AckFrame

\* the reconnect scheduled at line 94 succeeds: connectToRabbitMQ lines 47-61
\* create a channel, store it in the module and register the consumer on it
Reconnected ==
    /\ channelId = 0
    /\ channelsCreated < MaxChannels
    /\ channelsCreated' = channelsCreated + 1
    /\ channelId' = channelsCreated + 1
    /\ UNCHANGED <<ackLoc, deliveredOn, handling, ackLog>>
    /\ AckFrame

NextAck ==
    \/ \E m \in AckMsgs : ConsumeCallback(m)
    \/ \E m \in AckMsgs : CallbackSettles(m)
    \/ CloseHandler
    \/ Reconnected

SpecAck == InitAckSpec /\ [][NextAck]_vars

----------------------------------------------------------------------------
(* Gateway: properties *)

\* the messages in the broker's queues that carry one of the ids in S
PublishedWithId(S) ==
    {<<q, i>> \in UNION {{q} \X (1..Len(exchangeQueues[q])) : q \in QueueNames} :
        exchangeQueues[q][i].notification_id \in S}

SubmittedWithKey(k) == {r \in Requests : req[r].pc # "new" /\ req[r].key = k}

\* C1: for submissions handled one after the other that carry the same
\* X-Idempotency-Key (no Redis error), once all of them are answered and one of
\* the answers carries a notification_id, all answers carry the same
\* notification_id and exactly one message was published for them in total.
C1_SameIdOnePublish ==
    (~storeFault /\ ~overlap) =>
        \A k \in IdempotencyKeys :
            LET same == SubmittedWithKey(k)
                answered == {r \in same : req[r].respId # 0}
            IN  ((\A r \in same : req[r].pc = "done") /\ answered # {}) =>
                    /\ \A a, b \in answered : req[a].respId = req[b].respId
                    /\ Cardinality(PublishedWithId({NewNotificationID(r) : r \in same})) = 1

\* C2: a submission whose type or priority is outside its enumeration is
\* answered 400 in the step that receives it, the handler is finished, and that
\* step changes neither the queues, nor the status store, nor the idempotency
\* store, nor the count of publish calls, whatever key it carries.
C2_InvalidRejectedNoEffects ==
    [][\A r \in Requests :
         (req[r].pc = "new" /\ req'[r].pc # "new"
            /\ ~(req'[r].type \in NotificationTypes /\ req'[r].priority \in PriorityValues))
         => /\ req'[r].pc = "done"
            /\ req'[r].code = 400
            /\ UNCHANGED <<idempotency, statusStore, exchangeQueues, publishCalls>>]_vars

\* C2 witness: a rejected submission with an invalid priority that carried a key
C2_Witness ==
    \E r \in Requests :
        /\ req[r].pc = "done" /\ req[r].code = 400
        /\ req[r].type \in NotificationTypes /\ req[r].priority \notin PriorityValues
        /\ req[r].key # ""

----------------------------------------------------------------------------
(* Push consumer and PushService: properties *)

Last(seq) == seq[Len(seq)]

\* sendToUser calls of n that ended in a thrown lookup or a thrown provider send
Failures(n) == outcomes[n]["lookupFailed"] + outcomes[n]["sendFailed"]

\* nothing of n is running or scheduled in PushService
Quiescent(n) == \A rc \in RetryCounts : call[n][rc] \in {"none", "end"}

\* failed.queue holds the message the broker dead-lettered for m, body untouched
DeadLettered(m) ==
    \E i \in 1..Len(failedQueue) :
        /\ failedQueue[i].msg = m
        /\ failedQueue[i].kind = "dead-letter"
        /\ ~failedQueue[i].wrapped
        /\ failedQueue[i].payload = body[m]

\* C3: a message of the queue format that the consumer acknowledged had its
\* notification delivered; a message whose processing failed (a failed user
\* lookup or provider send inside sendToUser included) is not acknowledged.
C3_NoAckOnFailure ==
    \A m \in Msgs :
        (settled[m] = "ack" /\ Dispatch(body[m]) = "queue")
            => outcomes[NotificationOf(m)]["delivered"] > 0

\* C4: once the push service has reported a terminal outcome (delivered or
\* failed) for notification N, the record GET /notifications/N returns shows it.
C4_TerminalOutcomeVisible ==
    \A n \in Msgs :
        (reports[n] # <<>> /\ Last(reports[n]).status \in {"delivered", "failed"})
            => GetNotificationStatus(n) = Last(reports[n]).status

\* C5: a notification handed to sendToUser that has no call running and no retry
\* timer left has been reported with a terminal status (delivered or failed);
\* nothing remains that could bring a notification stuck short of it to one.
C5_TerminalWhenQuiescent ==
    \A n \in Msgs :
        (call[n][0] # "none" /\ Quiescent(n))
            => /\ reports[n] # <<>>
               /\ Last(reports[n]).status \in {"delivered", "failed"}

\* C6: after 5 delivery failures with no successful delivery in between, across
\* any notifications, the circuit breaker has been tripped.
C6_TripsAtFiveFailures ==
    LET total[k \in 0..MaxMsgs] == IF k = 0 THEN 0 ELSE total[k - 1] + Failures(k)
    IN  ((\A n \in Msgs : outcomes[n]["delivered"] = 0)
            /\ total[MaxMsgs] >= CIRCUIT_BREAKER_THRESHOLD)
        => trips > 0

\* the attempts of n were: provider send failed twice, then delivered
FailedTwiceThenDelivered(n) ==
    outcomes[n] = [o \in Outcomes |-> CASE o = "sendFailed" -> 2
                                        [] o = "delivered" -> 1
                                        [] OTHER -> 0]

AlwaysFailedExhausted(n) ==
    /\ Failures(n) = MAX_RETRIES + 1
    /\ \A o \in {"open", "disabled", "delivered"} : outcomes[n][o] = 0

C9_NackedIsDeadLettered ==
    \A m \in Msgs :
        ((~JsonParses(body[m]) /\ deliveries[m] > 0) \/ settled[m] = "nack")
            => /\ loc[m] = "gone"
               /\ deliveries[m] = 1
               /\ DeadLettered(m)

C9_Witness ==
    \E m \in Msgs :
        /\ settled[m] = "nack"
        /\ JsonParses(body[m])
        /\ processed[m]
        /\ DeadLettered(m)

\* C10: a consumed message whose body is not valid JSON has been nacked without
\* requeue, and processPushNotification, the user lookup, the provider send and
\* the retry timers were never invoked for it.
C10_InvalidJsonNackedUnprocessed ==
    \A m \in Msgs :
        (body[m] = "corrupt" /\ deliveries[m] > 0)
            => /\ settled[m] = "nack"
               /\ loc[m] = "gone"
               /\ hpc[m] = "done"
               /\ ~processed[m]
               /\ lookups[NotificationOf(m)] = 0
               /\ sends[NotificationOf(m)] = 0
               /\ delays[NotificationOf(m)] = <<>>
               /\ \A rc \in RetryCounts : call[NotificationOf(m)][rc] = "none"

C10_Witness ==
    \E m \in Msgs :
        /\ body[m] = "corrupt"
        /\ settled[m] = "nack"
        /\ ~processed[m]
        /\ deliveries[m] = 1

\* C11: a message whose handler failed with an exception and whose callback has
\* finished has been nacked, also when the connection (and with it the channel
\* for the failed-queue write) went away while the handler ran.
C11_NackAfterHandlerFailure ==
    \A m \in Msgs :
        (threw[m] /\ processed[m] /\ hpc[m] = "done") => settled[m] = "nack"

\* C12: whatever the gateway has published sits only in the queue of its type:
\* email.queue holds only email messages, push.queue only push messages, every
\* published id is in exactly one queue, and failed.queue, which the gateway does
\* not bind to the exchange, holds nothing.
C12_RoutedByType ==
    /\ \A i \in 1..Len(exchangeQueues[EmailQueue]) :
           exchangeQueues[EmailQueue][i].type = "email"
    /\ \A i \in 1..Len(exchangeQueues[PushQueue]) :
           exchangeQueues[PushQueue][i].type = "push"
    /\ exchangeQueues[FailedQueue] = <<>>
    /\ \A b \in Bindings : b[2] # FailedQueue
    /\ \A r \in Requests :
           Cardinality(PublishedWithId({NewNotificationID(r)})) <= 1

C12_Witness ==
    /\ Len(exchangeQueues[EmailQueue]) = 1
    /\ Len(exchangeQueues[PushQueue]) = 1
    /\ exchangeQueues[EmailQueue][1].type = "email"
    /\ exchangeQueues[PushQueue][1].type = "push"

\* C13: a submission answered 500 has finished, called Publish exactly once, put
\* no message in any queue and made no status write for its notification id; no
\* submission calls Publish more than once.
C13_PublishFailureSurfaced ==
    \A r \in Requests :
        /\ publishCalls[r] <= 1
        /\ req[r].code = 500
            => /\ req[r].pc = "done"
               /\ publishCalls[r] = 1
               /\ req[r].respId = 0
               /\ req[r].statusWrites = 0
               /\ GetNotificationStatus(NewNotificationID(r)) = "none"
               /\ PublishedWithId({NewNotificationID(r)}) = {}

C13_Witness ==
    \E r \in Requests :
        /\ req[r].code = 500
        /\ req[r].pc = "done"
        /\ publishCalls[r] = 1

C15_PendingAfterAccepted ==
    ~storeFault =>
        \A r \in Requests :
            req[r].code = 202 => GetNotificationStatus(req[r].respId) = "pending"

\* C16: with no Redis error, the status record the handler wrote on day T is
\* returned by GET /notifications/:id up to day T + 6 and is absent from day T + 8.
C16_StatusLivesSevenDays ==
    ~storeFault =>
        \A n \in Requests :
            createdAt[n] # -1 =>
                /\ day <= createdAt[n] + 6 => GetNotificationStatus(n) # "none"
                /\ day >= createdAt[n] + 8 => GetNotificationStatus(n) = "none"

\* C17: every startup of the gateway or of the push service, in any order and
\* number, finds its queue declarations accepted by the broker.
C17_EveryStartupSucceeds ==
    \A i \in 1..Len(startLog) : startLog[i].ok

\* C18: once a startup has completed its setup, each primary queue that exists
\* (email.queue, push.queue) carries the 24 h message TTL and dead-letters to
\* failed.queue through the default exchange.
C18_PrimaryQueuesDeadLetter ==
    (\E i \in 1..Len(startLog) : startLog[i].ok) =>
        \A q \in {EmailQueue, PushQueue} :
            brokerQueues[q].exists =>
                /\ brokerQueues[q].arguments.ttl = MESSAGE_TTL
                /\ brokerQueues[q].arguments.deadLetterExchange = ""
                /\ brokerQueues[q].arguments.deadLetterRoutingKey = FailedQueue

\* notifications PushService is working on: a sendToUser call is running or a
\* retry timer is pending
WorkingOn == {n \in Msgs : ~Quiescent(n)}

\* C19: the notifications being worked on belong to unacknowledged messages, so
\* that their number stays within the prefetch limit.
C19_WorkWithinPrefetch ==
    /\ \A m \in Msgs : NotificationOf(m) \in WorkingOn => loc[m] = "unacked"
    /\ Cardinality(WorkingOn) <= PREFETCH

\* C20: a connectToRabbitMQ call that has ended after a failed connection attempt
\* has rejected, with its whole retry budget used; it never ends resolved while
\* the last attempt failed and retries were left.
C20_BoundedRetriesThenReject ==
    (connectPc = "idle" /\ reconnectAttempts > 0)
        => /\ connectResult = "rejected"
           /\ reconnectAttempts = DEFAULT_MAX_RETRIES

\* C21: when the status update awaited by sendToUser settles, whatever the POST
\* did, the call ends with the result it had before the update (no error handling,
\* no retry scheduled, no further report), and the message of a first attempt is
\* acknowledged, never negatively acknowledged.
C21_StatusWriteNeverCascades ==
    [][\A n \in Msgs, rc \in RetryCounts :
         (call[n][rc] \in {"postThenFalse", "postThenTrue"} /\ call'[n][rc] # call[n][rc])
            => /\ call'[n][rc] = "end"
               /\ outcomes' = outcomes
               /\ timerDue' = timerDue
               /\ reports' = reports
               /\ threw' = threw
               /\ (rc = 0 /\ channel = "open") => settled'[n] = "ack"
               /\ settled'[n] # "nack"]_vars

\* a delivered notification whose status write did not reach the store, acked
C21_Witness ==
    \E n \in Msgs :
        /\ outcomes[n]["delivered"] = 1
        /\ reports[n] # <<>>
        /\ Last(reports[n]).status = "delivered"
        /\ statusStore[n] # "delivered"
        /\ call[n][0] = "end"
        /\ settled[n] = "ack"

\* the retryCounts of n whose sendToUser call is between its start and its return
Attempting(n) ==
    {rc \in RetryCounts : call[n][rc] \in {"lookup", "send", "postThenFalse", "postThenTrue"}}

\* the retryCounts of n whose retry timer is pending
Scheduled(n) == {rc \in RetryCounts : call[n][rc] = "timer"}

C23_AtMostHundredReachHandler ==
    /\ rlPassed <= RATE_LIMIT_MAX
    /\ (rlSentNow /\ rlLast.redis # "error" /\ rlCount > RATE_LIMIT_MAX)
          => rlLast.code = "429"

\* C23 (amended): of the requests whose IncrementRateLimit call succeeds at most
\* 100 reach the handler within one lifetime of the counter, such a request is
\* answered 429 exactly if the count returned to it is above 100, and a request
\* whose IncrementRateLimit call returns an error is handed to the handler.
C23_CountedRequestsLimited ==
    /\ rlPassed - rlUncounted <= RATE_LIMIT_MAX
    /\ rlLast.redis = "ok" => (rlLast.code = "429" <=> rlLast.count > RATE_LIMIT_MAX)
    /\ rlLast.redis \in {"error", "partial"} => rlLast.code = "handler"

\* the 101st counted request of a lifetime is answered 429 after 100 were let through
C23_Witness ==
    /\ rlLast = [redis |-> "ok", count |-> RATE_LIMIT_MAX + 1, code |-> "429"]
    /\ rlPassed - rlUncounted = RATE_LIMIT_MAX

\* C24: a client that makes at most one request per clock step (so never more than
\* 100 in any 60 seconds) is never answered 429.
C24_PacedClientNeverLimited ==
    rlPaced => rlLast.code # "429"

\* C25: a refresh request that is answered 200 with new tokens did not present a
\* refresh token that had been replaced (by a login or a refresh) or cleared (by a
\* logout) before the request read the user.
C25_RetiredTokenRejected ==
    \A s \in RefreshSlots : refreshReq[s].code = 200 => ~refreshReq[s].wasRetired

\* the request of slot s has just been answered with one of the codes
AnsweredWith(s, codes) ==
    /\ tokenReq[s].pc # "done"
    /\ tokenReq'[s].pc = "done"
    /\ tokenReq'[s].code \in codes

C27_ConcurrentSameKeyOnePublish ==
    ~storeFault =>
        \A k \in IdempotencyKeys :
            LET same == SubmittedWithKey(k)
                answered == {r \in same : req[r].respId # 0}
            IN  (\A r \in same : req[r].pc = "done") =>
                    /\ Cardinality(PublishedWithId({NewNotificationID(r) : r \in same})) <= 1
                    /\ \A a, b \in answered : req[a].respId = req[b].respId

\* C28: whenever no submission with the key is being handled, an idempotency
\* record key -> id refers to an id whose message was published.
C28_RecordRefersToPublished ==
    \A k \in IdempotencyKeys :
        (idempotency[k] # 0 /\ \A r \in SubmittedWithKey(k) : req[r].pc = "done")
            => PublishedWithId({idempotency[k]}) # {}

\* C29: the breaker goes from open to closed only in the step in which the reset
\* timer of its latest trip fires, 60 s after that trip: that timer is then the
\* only reset timer pending, it is due, and the step removes it.
C29_OnlyOwnTimerCloses ==
    [][(isCircuitOpen /\ ~isCircuitOpen')
          => /\ Len(resetTimers) = 1
             /\ Head(resetTimers) = 0
             /\ resetTimers' = <<>>]_vars

\* C30: every attempt that fails while the breaker is closed raises failure_count
\* by exactly one, the attempt that exhausts the retries included.
C30_EveryFailureCounted ==
    [][\A n \in Msgs :
          (~isCircuitOpen /\ Failures(n)' = Failures(n) + 1)
             => failureCount' = failureCount + 1]_vars

----------------------------------------------------------------------------
(* Push service: provider sends and the breaker *)

\* C31: while the circuit breaker is open no step invokes the provider send:
\* neither sendToUser's call of sendToDevice (sends grows) nor the legacy
\* branch's direct call of sendToDevice (the callback reaches "legacySend")
C31_NoSendWhileOpen ==
    [][isCircuitOpen =>
         /\ sends' = sends
         /\ \A m \in Msgs : hpc'[m] = "legacySend" => hpc[m] = "legacySend"]_vars

----------------------------------------------------------------------------
(* Gateway to push consumer: the body on the wire *)

\* Publish lines 119-131: the body written to the exchange is the JSON of
\* celeryTask, an object with the keys task, id, args, kwargs, retries and eta
\* that holds the gateway's message as the one element of args
CeleryTask(message) == "celery"

\* C32: every message the gateway publishes to the push queue parses, is
\* dispatched by the push consumer to processNotificationFromQueue, and passes
\* its required-field check
C32_PublishedPushAccepted ==
    \A i \in 1..Len(exchangeQueues[PushQueue]) :
      LET b == CeleryTask(exchangeQueues[PushQueue][i])
      IN  /\ JsonParses(b)
          /\ Dispatch(b) = "queue"
          /\ RequiredFieldsPresent(b)

----------------------------------------------------------------------------
(* Push service: the retry schedule *)

\* the attempt of n with retry count rc ends in this step with a failure
FailsNow(n, rc) ==
    /\ call[n][rc] \in {"lookup", "send"}
    /\ call'[n][rc] = "end"
    /\ Failures(n)' = Failures(n) + 1

\* C33: a failed attempt with retry count 0, 1, 2 schedules one retry, delayed by
\* 1000, 2000, 4000 ms, that runs with the next retry count; a failed attempt
\* with retry count 3 or more schedules nothing
C33_BackoffSchedule ==
    [][\A n \in Msgs, rc \in RetryCounts :
         FailsNow(n, rc) =>
           IF rc \in {0, 1, 2}
           THEN /\ call'[n][rc + 1] = "timer"
                /\ timerDue'[n][rc + 1] = <<1000, 2000, 4000>>[rc + 1]
                /\ delays'[n] = Append(delays[n], <<1000, 2000, 4000>>[rc + 1])
                /\ \A k \in RetryCounts : k # rc + 1 => call'[n][k] # "timer"
           ELSE /\ \A k \in RetryCounts : call'[n][k] # "timer"
                /\ timerDue'[n] = timerDue[n]
                /\ delays'[n] = delays[n]]_vars

\* the fourth attempt of a notification has failed after retries delayed by
\* 1000, 2000 and 4000 ms, and nothing is scheduled for it
C33_Witness ==
    \E n \in Msgs :
      /\ call[n][3] = "end"
      /\ Failures(n) = 4
      /\ delays[n] = <<1000, 2000, 4000>>
      /\ \A k \in RetryCounts : call[n][k] # "timer"

----------------------------------------------------------------------------
(* Push service: template substitution, properties *)

\* the substitution as stated: a placeholder whose key is an entry of the
\* flattened variables becomes the string form of its value, every other token
\* stays, and substituted values are not scanned
RECURSIVE StatedRender(_, _)
StatedRender(tpl, flattened) ==
    IF tpl = <<>> THEN <<>>
    ELSE (IF Head(tpl).kind = "placeholder" /\ Head(tpl).val \in DOMAIN flattened
          THEN String(flattened[Head(tpl).val])
          ELSE <<Head(tpl)>>)
         \o StatedRender(Tail(tpl), flattened)

\* C34: replaceVariables replaces every {{key}} whose key is defined in the
\* flattened variables by the string form of its value, leaves every placeholder
\* of an undefined key unchanged, and does not expand placeholders inside
\* substituted values
C34_SubstitutesDefinedKeysOnly ==
    renderPc = "done" =>
      rendered = StatedRender(template, FlattenedVariables(variables))

----------------------------------------------------------------------------
(* Push service: acknowledgements, properties *)

\* C35: every ack or nack the consumer writes goes to the channel that delivered
\* the message it settles, also when the connection was lost and re-established
\* while the handler ran
C35_SettledOnDeliveringChannel ==
    \A i \in 1..Len(ackLog) : ackLog[i].on = ackLog[i].delivery

----------------------------------------------------------------------------
(* Push service: what a resolved connectToRabbitMQ leaves behind *)

\* C36: when a call of connectToRabbitMQ that started a connection attempt (it is
\* awaiting connect() or its retry delay) resolves, the module's channel is set
\* with the consumer registered on it
C36_ResolvedMeansConnected ==
    [][(connectPc \in {"connect", "delay"} /\ connectResult' = "resolved")
          => channel' = "open"]_vars

----------------------------------------------------------------------------
(* Push service: entries of the failed queue *)

\* the positions of failed.queue that hold m in some form
FailedEntries(m) == {i \in 1..Len(failedQueue) : failedQueue[i].msg = m}

\* C37: a message whose handler failed and that was nacked has exactly one entry
\* in the failed queue
C37_OneFailedEntryPerFailure ==
    \A m \in Msgs :
        (processed[m] /\ threw[m] /\ hpc[m] = "done" /\ settled[m] = "nack")
            => Cardinality(FailedEntries(m)) = 1

----------------------------------------------------------------------------
(* Push service: the status sequence of a notification *)

\* the last status reported for n is delivered or failed
TerminalReported(n) ==
    /\ reports[n] # <<>>
    /\ Last(reports[n]).status \in {"delivered", "failed"}

----------------------------------------------------------------------------
(* Push service: the number of attempts per notification *)

----------------------------------------------------------------------------
(* Push service: a user with push disabled or without a token *)

\* C40: the step in which sendToUser finds push disabled or no token reports
\* failed with an error text and goes on to return false; it starts no provider
\* send, schedules no retry and leaves failureCount and the breaker as they
\* were, and so does the return that follows
C40_DisabledUserNotAFailure ==
    [][\A n \in Msgs, rc \in RetryCounts :
         /\ (call[n][rc] = "lookup" /\ outcomes'[n]["disabled"] > outcomes[n]["disabled"])
              => /\ Len(reports'[n]) = Len(reports[n]) + 1
                 /\ Last(reports'[n]).status = "failed"
                 /\ Last(reports'[n]).error # ""
                 /\ call'[n][rc] = "postThenFalse"
                 /\ sends' = sends
                 /\ \A k \in RetryCounts : call'[n][k] # "timer"
                 /\ timerDue' = timerDue
                 /\ delays' = delays
                 /\ failureCount' = failureCount
                 /\ isCircuitOpen' = isCircuitOpen
                 /\ resetTimers' = resetTimers
         /\ (call[n][rc] = "postThenFalse" /\ call'[n][rc] # "postThenFalse")
              => /\ call'[n][rc] = "end"
                 /\ sends' = sends
                 /\ timerDue' = timerDue
                 /\ failureCount' = failureCount
                 /\ isCircuitOpen' = isCircuitOpen]_vars

\* a retry found the user disabled: failed was reported with the text, nothing
\* was sent, and the one failure counted before is still the count
C40_Witness ==
    \E n \in Msgs :
        /\ outcomes[n]["disabled"] = 1
        /\ Last(reports[n]) = [status |-> "failed",
                               error |-> "User has push disabled or no token"]
        /\ lookups[n] = 2
        /\ sends[n] = 0
        /\ failureCount = 1
        /\ ~isCircuitOpen
        /\ \A rc \in RetryCounts : call[n][rc] \in {"none", "end"}

====
